---- MODULE Spec2Model ----
(***************************************************************************)
(* State-machine model of packages/scan/src/core/notifications/            *)
(* event-tracking.ts: the toolbar event store (addEvent / addListener /    *)
(* clear), the long-pipeline sampler (requestAnimationFrame + setTimeout   *)
(* loop), visibility-dirty tracking and startTimingTracking.               *)
(***************************************************************************)
EXTENDS Integers, Sequences, FiniteSets, TLC

VARIABLES
    events,                         \* toolbarEventStore state.events
    listeners,                      \* the store's Set of listeners, in insertion order
    nextId,                         \* next id handed out by the id generator
    now,                            \* performance.now()
    visibilityState,                \* document.visibilityState
    isTaskDirty,                    \* module-level flag
    dirtyListeners,                 \* visibilitychange listeners installed
    framesDrawnInTheLastSecond,     \* module-level frame-time window
    accumulatedFiberRendersOverTask,\* accumulator of the current cycle (0 = null)
    renderSubs,                     \* active listenForRenders subscriptions
    rafHandle,                      \* last requestAnimationFrame handle (0 = unset)
    timeoutHandle,                  \* last setTimeout handle (0 = unset)
    pendingRaf,                     \* animation-frame callbacks not yet fired
    pendingTimeout,                 \* timeout callbacks not yet fired
    startTime,                      \* startTime captured by the pending cycle
    cycle,                          \* number of measure() calls so far
    samplerOwner,                   \* who started the sampler: none / timing / direct
    samplerStops,                   \* calls of the sampler's stop function
    timing,                         \* startTimingTracking: none / started / stopped
    subs,                           \* subscriptions startTimingTracking holds
    recording,                      \* the 'recording' performance-entry channel
    interactionBuffer,              \* interactionStore state
    feedLog,                        \* every interaction the platform feed delivered
    hiddenThisCycle,                \* the page went non-visible during this cycle
    addCount,                       \* addEvent calls so far
    completions,                    \* onComplete calls so far
    unsubscribed,                   \* listeners removed by their unsubscribe function
    interactionStatus,              \* the exported interactionStatus object
    startLog,                       \* what startTimingTracking set up, in order
    lastOp                          \* what the last operation did

vars == <<events, listeners, nextId, now, visibilityState, isTaskDirty,
          dirtyListeners, framesDrawnInTheLastSecond,
          accumulatedFiberRendersOverTask, renderSubs, rafHandle, timeoutHandle,
          pendingRaf, pendingTimeout, startTime, cycle, samplerOwner,
          samplerStops, timing, subs, recording, interactionBuffer, feedLog,
          hiddenThisCycle, addCount, completions, unsubscribed,
          interactionStatus, startLog, lastOp>>

storeVars == <<events, listeners, unsubscribed, nextId, addCount>>
envVars == <<now, visibilityState>>
samplerVars == <<isTaskDirty, dirtyListeners, framesDrawnInTheLastSecond,
                 accumulatedFiberRendersOverTask, renderSubs, rafHandle,
                 timeoutHandle, pendingRaf, pendingTimeout, startTime, cycle,
                 samplerOwner, samplerStops, hiddenThisCycle>>
timingVars == <<timing, subs, recording, interactionBuffer, feedLog, completions,
                interactionStatus, startLog>>

(***************************************************************************)
(* Bounds of the model.                                                    *)
(***************************************************************************)
MaxEvents == 3          \* addEvent calls made by consumers in one behaviour
MaxCycles == 5          \* measure() calls in one behaviour
MaxTime == 1100         \* last instant of the clock
MaxStops == 2           \* calls of one stop function
MaxCompletions == 2     \* onComplete calls in one behaviour
MaxFeed == 4            \* interactions the platform feed delivers
MAX_INTERACTION_BATCH == 2  \* capacity of the interaction buffer, scaled down
MAX_CHANNEL_SIZE == 2       \* capacity of a channel, scaled down

TimeOrigin == 5000      \* performance.timeOrigin
LongTaskThreshold == 100
FrameWindow == 1000
Deltas == {100, 200, 700}           \* time that passes between two callbacks
StopDeltas == {200}                 \* the same, where only the order of callbacks matters
TimingDeltas == {700}

Callbacks == {"cbA", "cbB"}         \* listener callbacks of the consumers
Times == {0, 200, 300, 500}         \* interval end points of direct addEvent calls

(***************************************************************************)
(* SlowdownEvent                                                           *)
(***************************************************************************)
NoEvent ==
    [id |-> 0, kind |-> "none", startAt |-> 0, endAt |-> 0,
     latency |-> 0, fps |-> 0, fiberRenders |-> 0, entryKind |-> "none"]

LongRender(id, s, e, latency, fps, trace) ==
    [id |-> id, kind |-> "long-render", startAt |-> s, endAt |-> e,
     latency |-> latency, fps |-> fps, fiberRenders |-> trace,
     entryKind |-> "none"]

Interaction(id, s, e, latency, entryKind) ==
    [id |-> id, kind |-> "interaction", startAt |-> s, endAt |-> e,
     latency |-> latency, fps |-> 0, fiberRenders |-> 0,
     entryKind |-> entryKind]

(***************************************************************************)
(* addEvent                                                                *)
(***************************************************************************)
\* The boundary checks of the find callback without the third one.
OverlapCasesNoContain(longRenderEvent, event) ==
    \/ /\ longRenderEvent.startAt <= event.startAt
       /\ longRenderEvent.endAt <= event.endAt
       /\ longRenderEvent.endAt >= event.startAt
    \/ /\ event.startAt <= longRenderEvent.startAt
       /\ event.endAt >= longRenderEvent.startAt

\* The three boundary checks of the find callback.
OverlapCases(longRenderEvent, event) ==
    \/ /\ longRenderEvent.startAt <= event.startAt
       /\ longRenderEvent.endAt <= event.endAt
       /\ longRenderEvent.endAt >= event.startAt
    \/ /\ event.startAt <= longRenderEvent.startAt
       /\ event.endAt >= longRenderEvent.startAt
    \/ /\ longRenderEvent.startAt <= event.startAt
       /\ longRenderEvent.endAt >= event.endAt

\* events.find(...) of applyOverlapCheckToLongRenderEvent: is there an event
\* that is no long-render, is not the long-render itself, and overlaps it.
FindsOverlap(all, longRenderEvent) ==
    \E i \in 1..Len(all) :
        /\ all[i].kind # "long-render"
        /\ all[i].id # longRenderEvent.id
        /\ OverlapCases(longRenderEvent, all[i])

\* Index of the first interaction of the scanned list, Len + 1 when none:
\* the for loop returns from addEvent there.
ScanStop(all) ==
    IF \E i \in 1..Len(all) : all[i].kind = "interaction"
    THEN CHOOSE i \in 1..Len(all) :
            /\ all[i].kind = "interaction"
            /\ \A j \in 1..(i - 1) : all[j].kind # "interaction"
    ELSE Len(all) + 1

\* toRemove as filled by the loop before it ends or returns.
ToRemove(all) ==
    {all[i].id : i \in {j \in 1..(ScanStop(all) - 1) : FindsOverlap(all, all[j])}}

\* A loop that skips interactions instead of returning.
CommitsAlways(all) == TRUE

\* The loop ran to its end, so the filtered list is committed with set().
Commits(all) == ScanStop(all) = Len(all) + 1

\* addEvent that puts the new event first.
EventsAfterAddPrepending(cur, event) ==
    LET all == <<event>> \o cur
        gone == ToRemove(all)
        Keep(x) == x.id \notin gone
    IN  IF Commits(all) THEN SelectSeq(all, Keep) ELSE cur

\* state.events after addEvent(event) on state.events = cur.
EventsAfterAdd(cur, event) ==
    LET all == Append(cur, event)
        gone == ToRemove(all)
        Keep(x) == x.id \notin gone
    IN  IF Commits(all) THEN SelectSeq(all, Keep) ELSE cur

\* Listener notification placed after the commit.
NotifiedAfterCommit(ls, cur, event) ==
    [i \in 1..Len(ls) |->
        [listener |-> ls[i], event |-> event, seen |-> EventsAfterAdd(cur, event)]]

\* for (const listener of listeners) listener(event): each listener, in
\* insertion order, with the visible events it can read at that moment.
Notified(ls, cur, event) ==
    [i \in 1..Len(ls) |-> [listener |-> ls[i], event |-> event, seen |-> cur]]

NoOp ==
    [name |-> "init", event |-> NoEvent, pre |-> <<>>, notified |-> <<>>,
     toRemove |-> {}, committed |-> FALSE, calls |-> 0, duration |-> 0,
     fps |-> 0, dirty |-> FALSE, hidden |-> FALSE, hadEntries |-> FALSE,
     listener |-> "none", stopInside |-> FALSE, afterClear |-> FALSE]

\* An operation of which nothing is recorded.
OtherOp == [NoOp EXCEPT !.name = "other"]

\* The effect of one addEvent call on the store, recorded in op.
AddEventInto(op, event) ==
    /\ events' = EventsAfterAdd(events, event)
    /\ nextId' = nextId + 1
    /\ addCount' = addCount + 1
    /\ lastOp' = [op EXCEPT !.event = event,
                            !.pre = events,
                            !.notified = Notified(listeners, events, event),
                            !.toRemove = ToRemove(Append(events, event)),
                            !.committed = Commits(Append(events, event)),
                            !.calls = 1,
                            !.afterClear = (lastOp.name = "clear")]

\* toolbarEventStore.getState().actions.addEvent(event), called by a consumer.
AddEvent(kind, s, e) ==
    /\ nextId <= MaxEvents
    /\ s <= e
    /\ LET event == IF kind = "long-render"
                    THEN LongRender(nextId, s, e, e - s, 0, 0)
                    ELSE Interaction(nextId, s, e, e - s, "pointer")
       IN  AddEventInto([NoOp EXCEPT !.name = "addEvent"], event)
    /\ UNCHANGED <<listeners, unsubscribed, envVars, samplerVars, timingVars>>

\* actions.addListener(listener): Set.add keeps one entry per callback.
AddListener(l) ==
    /\ listeners' = IF \E i \in 1..Len(listeners) : listeners[i] = l
                    THEN listeners
                    ELSE Append(listeners, l)
    /\ unsubscribed' = unsubscribed \ {l}
    /\ lastOp' = [NoOp EXCEPT !.name = "addListener", !.listener = l]
    /\ UNCHANGED <<events, nextId, addCount, envVars, samplerVars, timingVars>>

\* The function addListener returned: Set.delete.
Unsubscribe(l) ==
    /\ \/ \E i \in 1..Len(listeners) : listeners[i] = l
       \/ l \in unsubscribed
    /\ LET Keep(x) == x # l IN listeners' = SelectSeq(listeners, Keep)
    /\ unsubscribed' = unsubscribed \cup {l}
    /\ lastOp' = [NoOp EXCEPT !.name = "unsubscribe", !.listener = l]
    /\ UNCHANGED <<events, nextId, addCount, envVars, samplerVars, timingVars>>

\* clear() that also forgets the listeners.
ClearDroppingListeners ==
    /\ events # <<>>
    /\ events' = <<>>
    /\ listeners' = <<>>
    /\ lastOp' = [NoOp EXCEPT !.name = "clear", !.pre = events]
    /\ UNCHANGED <<unsubscribed, nextId, addCount, envVars, samplerVars,
                   timingVars>>

\* actions.clear()
Clear ==
    /\ events # <<>>
    /\ events' = <<>>
    /\ lastOp' = [NoOp EXCEPT !.name = "clear", !.pre = events]
    /\ UNCHANGED <<listeners, unsubscribed, nextId, addCount, envVars, samplerVars,
                   timingVars>>

(***************************************************************************)
(* The environment: the clock and the page's visibility.                   *)
(***************************************************************************)
\* Time passes while a cycle of the sampler waits for its callback.
Tick(d) ==
    /\ now + d <= MaxTime
    /\ pendingRaf # {} \/ pendingTimeout # {}
    /\ now' = now + d
    /\ lastOp' = OtherOp
    /\ UNCHANGED <<visibilityState, storeVars, samplerVars, timingVars>>

\* isTaskDirty after a visibilitychange event was dispatched.
DirtyAfter(flag, state, installed) ==
    IF installed = 0 \/ state = "visible" THEN flag ELSE TRUE

\* Is a measurement cycle of the sampler waiting for one of its callbacks.
CycleInProgress == pendingRaf # {} \/ pendingTimeout # {}

\* The page becomes hidden or visible: visibilitychange is dispatched.
VisibilityChange(state) ==
    /\ state # visibilityState
    /\ visibilityState' = state
    /\ isTaskDirty' = DirtyAfter(isTaskDirty, state, dirtyListeners)
    /\ hiddenThisCycle' =
          (hiddenThisCycle \/
              (state # "visible" /\ CycleInProgress /\ dirtyListeners > 0))
    /\ lastOp' = OtherOp
    /\ UNCHANGED <<now, storeVars, timingVars, dirtyListeners,
                   framesDrawnInTheLastSecond, accumulatedFiberRendersOverTask,
                   renderSubs, rafHandle, timeoutHandle, pendingRaf,
                   pendingTimeout, startTime, cycle, samplerOwner, samplerStops>>

(***************************************************************************)
(* startDirtyTaskTracking and startLongPipelineTracking                    *)
(***************************************************************************)
\* startDirtyTaskTracking(), called by a consumer.
StartDirtyTaskTracking ==
    /\ dirtyListeners = 0
    /\ timing = "none"
    /\ dirtyListeners' = dirtyListeners + 1
    /\ lastOp' = OtherOp
    /\ UNCHANGED <<envVars, storeVars, timingVars, isTaskDirty,
                   framesDrawnInTheLastSecond, accumulatedFiberRendersOverTask,
                   renderSubs, rafHandle, timeoutHandle, pendingRaf,
                   pendingTimeout, startTime, cycle, samplerOwner, samplerStops,
                   hiddenThisCycle>>

\* measure() up to its requestAnimationFrame call; closed is the
\* subscription the caller has just closed (0 when none).
Measure(closed) ==
    /\ cycle' = cycle + 1
    /\ accumulatedFiberRendersOverTask' = cycle + 1
    /\ renderSubs' = (renderSubs \ {closed}) \cup {cycle + 1}
    /\ startTime' = now
    /\ rafHandle' = cycle + 1
    /\ hiddenThisCycle' = FALSE

\* The window pruned with a strict comparison.
FramesAfterStrict(frames, endNow) ==
    LET Recent(frameAt) == endNow - frameAt < FrameWindow
    IN  SelectSeq(Append(frames, endNow), Recent)

\* framesDrawnInTheLastSecond after the push and the filter.
FramesAfter(frames, endNow) ==
    LET Recent(frameAt) == endNow - frameAt <= FrameWindow
    IN  SelectSeq(Append(frames, endNow), Recent)

\* The emission test without the dirty flag.
ShouldEmitIgnoringDirty(duration, dirty) == duration > LongTaskThreshold

\* The emission test with the threshold included.
ShouldEmitAtThreshold(duration, dirty) == duration >= LongTaskThreshold /\ ~dirty

\* if (duration > 100 && !isTaskDirty)
ShouldEmit(duration, dirty) == duration > LongTaskThreshold /\ ~dirty

\* cancelAnimationFrame(rafHandle); clearTimeout(timeoutHandle)
RafAfterStop(pending) == pending \ {rafHandle}
TimeoutAfterStop(pending) == pending \ {timeoutHandle}

\* startLongPipelineTracking(), called by a consumer that keeps the stop
\* function.
StartLongPipelineTracking ==
    /\ samplerOwner = "none"
    /\ timing = "none"
    /\ samplerOwner' = "direct"
    /\ Measure(0)
    /\ pendingRaf' = pendingRaf \cup {cycle + 1}
    /\ lastOp' = OtherOp
    /\ UNCHANGED <<envVars, storeVars, timingVars, isTaskDirty, dirtyListeners,
                   framesDrawnInTheLastSecond, timeoutHandle, pendingTimeout,
                   samplerStops>>

\* The function startLongPipelineTracking returned, called between callbacks.
StopLongPipelineTracking ==
    /\ samplerOwner = "direct"
    /\ samplerStops < MaxStops
    /\ samplerStops' = samplerStops + 1
    /\ pendingRaf' = RafAfterStop(pendingRaf)
    /\ pendingTimeout' = TimeoutAfterStop(pendingTimeout)
    /\ lastOp' = OtherOp
    /\ UNCHANGED <<envVars, storeVars, timingVars, isTaskDirty, dirtyListeners,
                   framesDrawnInTheLastSecond, accumulatedFiberRendersOverTask,
                   renderSubs, rafHandle, timeoutHandle, startTime, cycle,
                   samplerOwner, hiddenThisCycle>>

\* An animation-frame callback that sets no timeout.
RafFireWithoutTimeout ==
    /\ \E h \in pendingRaf : pendingRaf' = pendingRaf \ {h}
    /\ lastOp' = OtherOp
    /\ UNCHANGED <<envVars, storeVars, timingVars, isTaskDirty, dirtyListeners,
                   framesDrawnInTheLastSecond, accumulatedFiberRendersOverTask,
                   renderSubs, rafHandle, timeoutHandle, pendingTimeout,
                   startTime, cycle, samplerOwner, samplerStops,
                   hiddenThisCycle>>

\* The requestAnimationFrame callback: it sets the zero-delay timeout.
RafFire ==
    /\ \E h \in pendingRaf :
          /\ pendingRaf' = pendingRaf \ {h}
          /\ timeoutHandle' = h
          /\ pendingTimeout' = pendingTimeout \cup {h}
    /\ lastOp' = OtherOp
    /\ UNCHANGED <<envVars, storeVars, timingVars, isTaskDirty, dirtyListeners,
                   framesDrawnInTheLastSecond, accumulatedFiberRendersOverTask,
                   renderSubs, rafHandle, startTime, cycle, samplerOwner,
                   samplerStops, hiddenThisCycle>>

\* The setTimeout callback: the measurement, the emission of a long-render,
\* the end of the cycle and the next measure(). With stopInside a listener of
\* the store calls the sampler's stop function while it is notified.
TimeoutFire(stopInside) ==
    /\ cycle < MaxCycles
    /\ \E h \in pendingTimeout :
        LET endNow == now
            duration == endNow - startTime
            frames == FramesAfter(framesDrawnInTheLastSecond, endNow)
            fps == Len(frames)
            emit == ShouldEmit(duration, isTaskDirty)
            op == [NoOp EXCEPT !.name = "deferred", !.duration = duration,
                               !.fps = fps, !.dirty = isTaskDirty,
                               !.hidden = hiddenThisCycle,
                               !.stopInside = stopInside]
        IN  /\ stopInside => /\ emit
                             /\ listeners # <<>>
                             /\ samplerOwner = "direct"
                             /\ samplerStops < MaxStops
            /\ framesDrawnInTheLastSecond' = frames
            /\ IF emit
               THEN AddEventInto(op,
                        LongRender(nextId, startTime + TimeOrigin,
                                   TimeOrigin + endNow, duration, fps,
                                   accumulatedFiberRendersOverTask))
               ELSE /\ lastOp' = op
                    /\ UNCHANGED <<events, nextId, addCount>>
            /\ samplerStops' = IF stopInside THEN samplerStops + 1 ELSE samplerStops
            /\ isTaskDirty' = FALSE
            /\ Measure(h)
            /\ pendingTimeout' =
                  IF stopInside
                  THEN TimeoutAfterStop(pendingTimeout \ {h})
                  ELSE pendingTimeout \ {h}
            /\ pendingRaf' =
                  (IF stopInside THEN RafAfterStop(pendingRaf) ELSE pendingRaf)
                      \cup {cycle + 1}
    /\ UNCHANGED <<envVars, listeners, unsubscribed, timingVars, dirtyListeners,
                   timeoutHandle, samplerOwner>>

(***************************************************************************)
(* BoundedArray, the channels and the interaction store                    *)
(***************************************************************************)
\* The last n elements of a sequence.
LastN(items, n) ==
    IF Len(items) <= n THEN items
    ELSE SubSeq(items, Len(items) - n + 1, Len(items))

\* new BoundedArray(capacity)
NewBoundedArray(capacity) == [items |-> <<>>, capacity |-> capacity]

\* BoundedArray.fromArray(items, capacity): the last capacity items.
FromArray(items, capacity) ==
    [items |-> LastN(items, capacity), capacity |-> capacity]

\* push(item) on a BoundedArray
Push(buffer, item) ==
    [buffer EXCEPT !.items = LastN(Append(buffer.items, item), buffer.capacity)]

(***************************************************************************)
(* startTimingTracking                                                     *)
(***************************************************************************)
AllSubs == {"publisher", "pointer", "keyboard", "feed"}

\* A start-up that begins the sampler loop after the subscriptions.
StartUpStepsSamplerLast ==
    <<"publisher", "dirty", "pointer", "keyboard", "feed", "sampler">>

\* What startTimingTracking sets up, in the order of its statements:
\* setupPerformancePublisher, startDirtyTaskTracking,
\* startLongPipelineTracking, the pointer and keyboard detailed-timing
\* listeners, listenForPerformanceEntryInteractions.
StartUpSteps ==
    <<"publisher", "dirty", "sampler", "pointer", "keyboard", "feed">>

\* startTimingTracking()
StartTimingTracking ==
    /\ timing = "none"
    /\ samplerOwner = "none"
    /\ timing' = "started"
    /\ startLog' = StartUpSteps
    /\ subs' = AllSubs
    /\ dirtyListeners' = dirtyListeners + 1
    /\ samplerOwner' = "timing"
    /\ Measure(0)
    /\ pendingRaf' = pendingRaf \cup {cycle + 1}
    /\ lastOp' = OtherOp
    /\ UNCHANGED <<interactionStatus, envVars, storeVars, recording, interactionBuffer, feedLog,
                   completions, isTaskDirty, framesDrawnInTheLastSecond,
                   timeoutHandle, pendingTimeout, samplerStops>>

\* The subscriptions left by the function startTimingTracking returned:
\* unSubPerformance, unSubDetailedPointerTiming, unSubInteractions,
\* unSubDetailedKeyboardTiming.
SubsAfterTeardown(held) == held \ {"publisher", "pointer", "feed", "keyboard"}

\* The function startTimingTracking returned.
StopTimingTracking ==
    /\ timing \in {"started", "stopped"}
    /\ timing' = "stopped"
    /\ subs' = SubsAfterTeardown(subs)
    /\ lastOp' = [NoOp EXCEPT !.name = "stopTimingTracking"]
    /\ UNCHANGED <<interactionStatus, startLog, envVars, storeVars, samplerVars, recording,
                   interactionBuffer, feedLog, completions>>

\* onComplete that leaves the channel as it found it.
RecordingAfterCompleteNoReset(channel) == channel

\* The 'recording' channel after onComplete's desync check.
RecordingAfterComplete(channel) ==
    IF Len(channel.items) > 0
    THEN NewBoundedArray(MAX_CHANNEL_SIZE)
    ELSE channel

\* onComplete(_, finalInteraction, event) of a detailed-timing listener.
\* finalInteraction.detailedTiming.stopListeningForRenders() acts on the
\* listener of the collaborator, which holds no state of this module.
OnComplete(kind, blockingTimeStart, latency, entryKind) ==
    /\ kind \in subs
    /\ completions < MaxCompletions
    /\ completions' = completions + 1
    /\ AddEventInto([NoOp EXCEPT !.name = "onComplete",
                                 !.hadEntries = Len(recording.items) > 0],
                    Interaction(nextId, blockingTimeStart, now + TimeOrigin,
                                latency, entryKind))
    /\ recording' = RecordingAfterComplete(recording)
    /\ UNCHANGED <<interactionStatus, startLog, envVars, listeners, unsubscribed, samplerVars, timing, subs,
                   interactionBuffer, feedLog>>

\* The performance publisher stages a platform entry in the 'recording'
\* channel.
PublishEntry ==
    /\ "publisher" \in subs
    /\ Len(recording.items) < recording.capacity
    /\ recording' = Push(recording, "entry")
    /\ lastOp' = OtherOp
    /\ UNCHANGED <<interactionStatus, startLog, envVars, storeVars, samplerVars, timing, subs,
                   interactionBuffer, feedLog, completions>>

\* The feed callback with the new interaction put first.
InteractionsAfterFeedPrepending(buffer, completedInteraction) ==
    FromArray(<<completedInteraction>> \o buffer.items, MAX_INTERACTION_BATCH)

\* interactionStore state set by the feed callback.
InteractionsAfterFeed(buffer, completedInteraction) ==
    FromArray(buffer.items \o <<completedInteraction>>, MAX_INTERACTION_BATCH)

\* The callback of listenForPerformanceEntryInteractions.
FeedCallback ==
    /\ "feed" \in subs
    /\ Len(feedLog) < MaxFeed
    /\ LET completedInteraction == Len(feedLog) + 1
       IN  /\ interactionBuffer' =
                 InteractionsAfterFeed(interactionBuffer, completedInteraction)
           /\ feedLog' = Append(feedLog, completedInteraction)
    /\ lastOp' = OtherOp
    /\ UNCHANGED <<interactionStatus, startLog, envVars, storeVars, samplerVars, timing, subs, recording,
                   completions>>

(***************************************************************************)
(* Initial state: the module just loaded.                                  *)
(***************************************************************************)
Init ==
    /\ events = <<>>
    /\ listeners = <<>>
    /\ nextId = 1
    /\ now = 0
    /\ visibilityState = "visible"
    /\ isTaskDirty = FALSE
    /\ dirtyListeners = 0
    /\ framesDrawnInTheLastSecond = <<>>
    /\ accumulatedFiberRendersOverTask = 0
    /\ renderSubs = {}
    /\ rafHandle = 0
    /\ timeoutHandle = 0
    /\ pendingRaf = {}
    /\ pendingTimeout = {}
    /\ startTime = 0
    /\ cycle = 0
    /\ samplerOwner = "none"
    /\ samplerStops = 0
    /\ timing = "none"
    /\ subs = {}
    /\ recording = NewBoundedArray(MAX_CHANNEL_SIZE)
    /\ interactionBuffer = NewBoundedArray(MAX_INTERACTION_BATCH)
    /\ feedLog = <<>>
    /\ hiddenThisCycle = FALSE
    /\ addCount = 0
    /\ completions = 0
    /\ unsubscribed = {}
    /\ interactionStatus = [kind |-> "no-interaction", startedAt |-> 0,
                            endedAt |-> 0]
    /\ startLog = <<>>
    /\ lastOp = NoOp

(***************************************************************************)
(* The store driven by its consumers alone.                                *)
(***************************************************************************)
NextStore ==
    \/ \E kind \in {"long-render", "interaction"}, s \in Times, e \in Times :
          AddEvent(kind, s, e)
    \/ \E l \in Callbacks : AddListener(l)
    \/ \E l \in Callbacks : Unsubscribe(l)
    \/ Clear

SpecStore == Init /\ [][NextStore]_vars

(***************************************************************************)
(* The sampler started by a consumer that keeps its stop function.         *)
(***************************************************************************)
NextSampler ==
    \/ StartDirtyTaskTracking
    \/ StartLongPipelineTracking
    \/ StopLongPipelineTracking
    \/ RafFire
    \/ TimeoutFire(FALSE)
    \/ \E d \in Deltas : Tick(d)
    \/ \E state \in {"visible", "hidden"} : VisibilityChange(state)

SpecSampler == Init /\ [][NextSampler]_vars

(***************************************************************************)
(* The sampler, its stop function and the listeners of the store.          *)
(***************************************************************************)
NextStop ==
    \/ StartLongPipelineTracking
    \/ StopLongPipelineTracking
    \/ RafFire
    \/ \E stopInside \in BOOLEAN : TimeoutFire(stopInside)
    \/ \E d \in StopDeltas : Tick(d)
    \/ \E l \in Callbacks : AddListener(l)
    \/ \E l \in Callbacks : Unsubscribe(l)

SpecStop == Init /\ [][NextStop]_vars

(***************************************************************************)
(* The sampler's loop under an event loop that runs every callback it has  *)
(* been given: a pending animation-frame or timeout callback is fired.     *)
(***************************************************************************)
NextLoop ==
    \/ StartLongPipelineTracking
    \/ StopLongPipelineTracking
    \/ RafFire
    \/ TimeoutFire(FALSE)
    \/ \E d \in StopDeltas : Tick(d)

SpecLoop ==
    /\ Init
    /\ [][NextLoop]_vars
    /\ WF_vars(RafFire)
    /\ WF_vars(TimeoutFire(FALSE))

(***************************************************************************)
(* The whole module behind startTimingTracking.                            *)
(***************************************************************************)
Next ==
    \/ StartTimingTracking
    \/ StopTimingTracking
    \/ \E kind \in {"pointer", "keyboard"},
          blockingTimeStart \in {TimeOrigin, TimeOrigin + now} :
          OnComplete(kind, blockingTimeStart,
                     now + TimeOrigin - blockingTimeStart, "entry-received")
    \/ PublishEntry
    \/ FeedCallback
    \/ RafFire
    \/ TimeoutFire(FALSE)
    \/ \E d \in TimingDeltas : Tick(d)
    \/ \E state \in {"visible", "hidden"} : VisibilityChange(state)

Spec == Init /\ [][Next]_vars

(***************************************************************************)
(* Properties of the store.                                                *)
(***************************************************************************)
\* The canonical closed-interval intersection test of the specification.
CanonOverlap(a, b) == a.startAt <= b.endAt /\ b.startAt <= a.endAt

\* all without every long-render whose interval meets that of an interaction
\* of all.
Dedup(all) ==
    LET Keep(x) == ~ /\ x.kind = "long-render"
                     /\ \E i \in 1..Len(all) :
                           /\ all[i].kind = "interaction"
                           /\ CanonOverlap(x, all[i])
    IN  SelectSeq(all, Keep)

\* C1: after addEvent(e) the visible sequence is the previous one followed
\* by e, without every long-render whose interval overlaps the interval of
\* an interaction of that sequence.
C1_VisibleIsDedupOfAppended ==
    lastOp.name = "addEvent" =>
        events = Dedup(Append(lastOp.pre, lastOp.event))

\* C3: addEvent(e) calls every registered listener exactly once with e, in
\* registration order, while the store still holds the events it held before
\* the call, whether or not e is committed; no unsubscribed listener is called.
C3_ListenersNotifiedBeforeCommit ==
    [][(lastOp'.name = "addEvent" /\ addCount' = addCount + 1) =>
         LET n == lastOp'.notified
         IN  /\ Len(n) = Len(listeners)
             /\ \A i \in 1..Len(n) :
                   /\ n[i].listener = listeners[i]
                   /\ n[i].listener \notin unsubscribed
                   /\ n[i].seen = events
                   /\ n[i].event.id = nextId
                   /\ (events' # events => n[i].event = events'[Len(events')])
             /\ \A i, j \in 1..Len(n) : n[i].listener = n[j].listener => i = j]_vars

\* C3 witness: an interaction that is not committed was notified to the one
\* listener still registered after the other one unsubscribed.
C3_Witness ==
    /\ lastOp.name = "addEvent"
    /\ lastOp.event.kind = "interaction"
    /\ ~lastOp.committed
    /\ lastOp.pre # <<>>
    /\ Len(lastOp.notified) = 1
    /\ unsubscribed # {}

\* C10: the boundary checks mark a long-render for removal exactly when its
\* interval and the interval of an interaction satisfy s1 <= e2 /\ s2 <= e1.
C10_OverlapIffCanonical ==
    lastOp.name = "addEvent" =>
        LET all == Append(lastOp.pre, lastOp.event)
        IN  \A i \in 1..Len(all) :
                all[i].kind = "long-render" =>
                    (all[i].id \in lastOp.toRemove <=>
                        \E j \in 1..Len(all) :
                            /\ all[j].kind = "interaction"
                            /\ CanonOverlap(all[i], all[j]))

\* C10 witness: a long-render whose end touches the start of the interaction
\* is marked, one that ends before the interaction starts is not.
C10_Witness ==
    /\ lastOp.name = "addEvent"
    /\ lastOp.event.kind = "interaction"
    /\ \E i \in 1..Len(lastOp.pre) :
          /\ lastOp.pre[i].startAt < lastOp.pre[i].endAt
          /\ lastOp.pre[i].endAt = lastOp.event.startAt
          /\ lastOp.pre[i].id \in lastOp.toRemove
    /\ \E i \in 1..Len(lastOp.pre) :
          /\ lastOp.pre[i].endAt < lastOp.event.startAt
          /\ lastOp.pre[i].id \notin lastOp.toRemove

(***************************************************************************)
(* Properties of the sampler.                                              *)
(***************************************************************************)
\* C5: once the stop function of startLongPipelineTracking has been called,
\* no further measurement cycle starts and no further long-render is added.
C5_NothingAfterStop ==
    [][samplerStops > 0 => (cycle' = cycle /\ addCount' = addCount)]_vars

\* C6: a cycle during which the page went non-visible adds no long-render,
\* whatever its duration, and the dirty flag is false when the deferred
\* callback has ended the cycle and started the next one.
C6_DirtySuppressesAndResets ==
    lastOp.name = "deferred" =>
        /\ lastOp.hidden => (lastOp.calls = 0 /\ lastOp.dirty)
        /\ ~isTaskDirty
        /\ ~hiddenThisCycle

\* C6 witness: a cycle longer than the threshold, hidden on the way, that
\* added nothing and left the flag false.
C6_Witness ==
    /\ lastOp.name = "deferred"
    /\ lastOp.hidden
    /\ lastOp.duration > LongTaskThreshold
    /\ lastOp.calls = 0
    /\ ~isTaskDirty
    /\ pendingRaf # {}

\* C9: a firing at time now leaves the window holding the frames it held that
\* are at most 1000 old, in order, followed by now; the fps of the firing is
\* the length of that window.
C9_WindowIsLastSecond ==
    [][(cycle' = cycle + 1 /\ cycle >= 1) =>
         LET Recent(frameAt) == now - frameAt <= 1000
             kept == SelectSeq(framesDrawnInTheLastSecond, Recent)
         IN  /\ framesDrawnInTheLastSecond' = Append(kept, now)
             /\ lastOp'.fps = Len(framesDrawnInTheLastSecond')
             /\ (lastOp'.calls = 1 =>
                    lastOp'.event.fps = Len(framesDrawnInTheLastSecond'))]_vars

\* C9 witness: firings at 0, 200, 400 and 1100 leave [200, 400, 1100], fps 3.
C9_Witness ==
    /\ lastOp.name = "deferred"
    /\ cycle = 5
    /\ now = 1100
    /\ framesDrawnInTheLastSecond = <<200, 400, 1100>>
    /\ lastOp.fps = 3

(***************************************************************************)
(* Properties of startTimingTracking.                                      *)
(***************************************************************************)
\* C4: after the stop function of startTimingTracking has been called, no
\* long-render or interaction is added to the store and the interaction
\* buffer does not change.
C4_NothingAfterTeardown ==
    [][timing = "stopped" =>
         (addCount' = addCount /\ interactionBuffer' = interactionBuffer)]_vars

\* C7: onComplete run on a non-empty 'recording' channel leaves the channel
\* an empty buffer of capacity MAX_CHANNEL_SIZE, calls addEvent once, with an
\* interaction, and hands the discarded entries to nobody.
C7_DesyncResetsChannel ==
    [][(completions' = completions + 1 /\ Len(recording.items) > 0) =>
         /\ recording' = [items |-> <<>>, capacity |-> MAX_CHANNEL_SIZE]
         /\ addCount' = addCount + 1
         /\ lastOp'.calls = 1
         /\ lastOp'.event.kind = "interaction"
         /\ interactionBuffer' = interactionBuffer
         /\ feedLog' = feedLog]_vars

\* C7 witness: an onComplete that found entries in the channel has returned.
C7_Witness ==
    /\ lastOp.name = "onComplete"
    /\ lastOp.hadEntries
    /\ lastOp.event.kind = "interaction"
    /\ recording.items = <<>>

\* C8: after N feed callbacks the interaction buffer holds the last
\* min(N, MAX_INTERACTION_BATCH) interactions delivered, in arrival order.
C8_BufferHoldsMostRecent ==
    LET n == IF Len(feedLog) < MAX_INTERACTION_BATCH
             THEN Len(feedLog) ELSE MAX_INTERACTION_BATCH
    IN  /\ Len(interactionBuffer.items) = n
        /\ Len(interactionBuffer.items) <= MAX_INTERACTION_BATCH
        /\ \A i \in 1..n :
              interactionBuffer.items[i] = feedLog[Len(feedLog) - n + i]

\* C8 witness: more interactions were delivered than the buffer holds, and
\* the oldest ones are gone.
C8_Witness ==
    /\ Len(feedLog) > MAX_INTERACTION_BATCH
    /\ Len(interactionBuffer.items) = MAX_INTERACTION_BATCH
    /\ interactionBuffer.items[1] = Len(feedLog) - MAX_INTERACTION_BATCH + 1

(***************************************************************************)
(* Further properties of the store.                                        *)
(***************************************************************************)
\* C11: clear() empties the visible sequence and leaves the listeners as
\* they are; the addEvent that follows it notifies every one of them.
C11_ClearKeepsListeners ==
    [][/\ (lastOp'.name = "clear" /\ events # <<>>) =>
              (events' = <<>> /\ listeners' = listeners)
       /\ (lastOp.name = "clear" /\ addCount' = addCount + 1) =>
              /\ Len(lastOp'.notified) = Len(listeners)
              /\ \A i \in 1..Len(listeners) :
                    lastOp'.notified[i].listener = listeners[i]]_vars

\* C11 witness: the addEvent made right after a clear() has notified the two
\* listeners registered before it.
C11_Witness ==
    /\ lastOp.name = "addEvent"
    /\ lastOp.afterClear
    /\ lastOp.pre = <<>>
    /\ Len(lastOp.notified) = 2

\* C12: the visible events are listed in the order of their addEvent calls
\* (ids are handed out in call order), none twice, and an addEvent leaves
\* the events that survive it in the order they had.
C12_InsertionOrder ==
    /\ \A i, j \in 1..Len(events) : i < j => events[i].id < events[j].id
    /\ lastOp.name = "addEvent" =>
          \A i, j \in 1..Len(lastOp.pre) :
              (i < j /\ lastOp.pre[i] \in {events[k] : k \in 1..Len(events)}
                     /\ lastOp.pre[j] \in {events[k] : k \in 1..Len(events)}) =>
                  \E a, b \in 1..Len(events) :
                      a < b /\ events[a] = lastOp.pre[i] /\ events[b] = lastOp.pre[j]

\* C12 witness: three events are visible after the third addEvent.
C12_Witness ==
    /\ lastOp.name = "addEvent"
    /\ Len(events) = 3
    /\ lastOp.committed

\* C14: the visible sequence never reaches the number of addEvent calls a
\* behaviour may make, whatever that number is: its length has a maximum
\* that adding long-renders does not exceed.
C14_VisibleBounded == Len(events) < MaxEvents

\* C15: an addEvent whose scanned sequence holds an interaction commits
\* nothing: the visible events stay as they were, the new event is not added
\* and no long-render is removed, and the listeners were notified.
C15_ShortCircuitCommitsNothing ==
    [][(lastOp'.name = "addEvent" /\ addCount' = addCount + 1
        /\ \E i \in 1..Len(Append(events, lastOp'.event)) :
              Append(events, lastOp'.event)[i].kind = "interaction") =>
         /\ events' = events
         /\ ~lastOp'.committed
         /\ Len(lastOp'.notified) = Len(listeners)]_vars

\* C15 witness: an interaction overlapping a visible long-render was added
\* with a listener registered; the long-render is still visible and the
\* interaction is not.
C15_Witness ==
    /\ lastOp.name = "addEvent"
    /\ lastOp.event.kind = "interaction"
    /\ lastOp.toRemove # {}
    /\ events = lastOp.pre
    /\ events # <<>>
    /\ Len(lastOp.notified) >= 1

(***************************************************************************)
(* Further properties of the sampler.                                      *)
(***************************************************************************)
\* C16: the deferred callback emits one long-render when the duration of the
\* cycle is above the threshold and the dirty flag is not set, and nothing
\* otherwise (a duration equal to the threshold emits nothing); the event
\* has latency = duration, endAt - startAt = latency, fps = the length of
\* the window after this firing, and the accumulator the cycle created.
C16_EmitsIffLongAndClean ==
    [][(lastOp'.name = "deferred" /\ cycle' = cycle + 1) =>
         LET duration == now - startTime
         IN  IF duration > LongTaskThreshold /\ ~isTaskDirty
             THEN /\ addCount' = addCount + 1
                  /\ events' = Append(events, lastOp'.event)
                  /\ lastOp'.event.kind = "long-render"
                  /\ lastOp'.event.latency = duration
                  /\ lastOp'.event.endAt - lastOp'.event.startAt = duration
                  /\ lastOp'.event.fps = Len(framesDrawnInTheLastSecond')
                  /\ lastOp'.event.fiberRenders = cycle
                  /\ accumulatedFiberRendersOverTask = cycle
             ELSE /\ addCount' = addCount
                  /\ events' = events]_vars

\* C16 witness: the third cycle lasted 200 and emitted a long-render with
\* that latency and the accumulator of the third cycle.
C16_Witness ==
    /\ lastOp.name = "deferred"
    /\ cycle = 4
    /\ lastOp.calls = 1
    /\ lastOp.duration = 200
    /\ lastOp.event.latency = 200
    /\ lastOp.event.fiberRenders = 3
    /\ events # <<>>
    /\ events[Len(events)] = lastOp.event

\* A cycle that lasted exactly the threshold has ended without an event.
C16_AtThresholdReached ==
    /\ lastOp.name = "deferred"
    /\ lastOp.duration = LongTaskThreshold
    /\ ~lastOp.dirty
    /\ lastOp.calls = 0

\* C17: while the sampler is not stopped and pending callbacks are fired,
\* each cycle is followed by the next one; a deferred firing starts the new
\* cycle in the same step, and a timeout is only set by the animation-frame
\* callback of its cycle.
C17_LoopRepeats ==
    /\ [][/\ (lastOp'.name = "deferred" /\ cycle' = cycle + 1) =>
                (pendingRaf' = {cycle'} /\ pendingTimeout' = {}
                    /\ startTime' = now)
          /\ \A h \in pendingTimeout' \ pendingTimeout :
                h \in pendingRaf /\ h \notin pendingRaf']_vars
    /\ \A c \in 1..(MaxCycles - 1) :
          (cycle = c /\ samplerStops = 0) ~> (cycle = c + 1 \/ samplerStops > 0)

\* C17 witness: the loop is in its fourth cycle, never stopped, with the
\* timeout of that cycle set.
C17_Witness ==
    /\ cycle = 4
    /\ samplerStops = 0
    /\ pendingTimeout = {4}
    /\ pendingRaf = {}

\* C19: at most one callback of the sampler is pending, at most one
\* render-trace subscription is active, and none is active once the sampler
\* has been stopped.
C19_OnePendingOneSubscription ==
    /\ Cardinality(pendingRaf) + Cardinality(pendingTimeout) <= 1
    /\ Cardinality(renderSubs) <= 1
    /\ samplerStops > 0 => renderSubs = {}

\* The part of C19 that holds: one callback, one subscription, that of the
\* cycle in progress.
C19_WhileRunning ==
    /\ Cardinality(pendingRaf) + Cardinality(pendingTimeout) <= 1
    /\ Cardinality(renderSubs) <= 1
    /\ cycle > 0 => renderSubs = {cycle}

(***************************************************************************)
(* Further properties of startTimingTracking.                              *)
(***************************************************************************)
\* The place of a step in the start-up of startTimingTracking.
StartUpPosition(step) == CHOOSE i \in 1..Len(startLog) : startLog[i] = step

\* C13: once the detailed timing of an interaction has resolved, the
\* interaction status is `completed` with startedAt <= endedAt.
C13_CompletedOnceResolved ==
    lastOp.name = "onComplete" =>
        /\ interactionStatus.kind = "completed"
        /\ interactionStatus.startedAt <= interactionStatus.endedAt

\* The status never leaves its initial value.
C13_StatusNeverDriven == interactionStatus.kind = "no-interaction"

\* C18: startTimingTracking sets up the publisher, the dirty tracking, the
\* sampler loop, the pointer listener, the keyboard listener and the feed
\* listener in that order; while a detailed-timing or feed subscription
\* exists the sampler loop has been started.
C18_StartUpOrder ==
    /\ timing # "none" =>
          /\ Len(startLog) = 6
          /\ StartUpPosition("publisher") < StartUpPosition("dirty")
          /\ StartUpPosition("dirty") < StartUpPosition("sampler")
          /\ StartUpPosition("sampler") < StartUpPosition("pointer")
          /\ StartUpPosition("pointer") < StartUpPosition("keyboard")
          /\ StartUpPosition("keyboard") < StartUpPosition("feed")
    /\ subs \cap {"pointer", "keyboard", "feed"} # {} =>
          /\ samplerOwner = "timing"
          /\ cycle >= 1
          /\ dirtyListeners >= 1

\* C18 witness: startTimingTracking has just returned: its subscriptions
\* are held and the first cycle of the sampler waits for its frame.
C18_Witness ==
    /\ timing = "started"
    /\ subs = AllSubs
    /\ cycle = 1
    /\ pendingRaf = {1}
    /\ Len(startLog) = 6

====
